---- MODULE Spec2Model ----
(***************************************************************************)
(* RAG-Pipeline: the vector-store adapters (ChromaDB, Qdrant, Weaviate),   *)
(* the document loader and the ingestion / retrieval pipeline.             *)
(*                                                                         *)
(* Texts are sequences over a two letter alphabet, embeddings are small    *)
(* integer vectors, float scores are kept as exact rationals <<num, den>>  *)
(* (den > 0).  Where a backend reports a square root (Euclidean distance)  *)
(* or a cosine, the model keeps its order-preserving square, so every      *)
(* comparison between two scores of one backend is the backend's own.      *)
(***************************************************************************)
EXTENDS Integers, Sequences, FiniteSets, TLC

(***************************************************************************)
(* Bounds of the model.                                                    *)
(***************************************************************************)
\* how many random point ids (uuid.uuid4()) one run may draw
MaxUuid == 2
\* largest n_results a direct adapter query asks for
MaxTopK == 2
\* latest add_documents call of one ingestion at which the backend may fail
MaxFailAt == 2

(***************************************************************************)
(* Program constants.                                                      *)
(***************************************************************************)
\* vector_db.vector_size of the configuration (the embedder's output size)
VectorSize == 2
\* retrieval.max_results default
DefaultMaxResults == 5
\* text_splitter.chunk_size / chunk_overlap of the configuration
ChunkSize == 2
ChunkOverlap == 0
\* chunk preview length of metadata['chunk_text']
PreviewLen == 200

(***************************************************************************)
(* Generic helpers.                                                        *)
(***************************************************************************)
Min(a, b) == IF a <= b THEN a ELSE b

Range(s) == {s[i] : i \in DOMAIN s}

\* all sequences of length n of distinct elements of S
InjSeqs(S, n) == {s \in [1..n -> S] : \A i, j \in 1..n : i # j => s[i] # s[j]}

\* all orderings of the finite set S
Perms(S) == InjSeqs(S, Cardinality(S))

RECURSIVE Dot(_, _)
Dot(a, b) == IF a = <<>> \/ b = <<>> THEN 0
             ELSE Head(a) * Head(b) + Dot(Tail(a), Tail(b))

SqNorm(a) == Dot(a, a)

RECURSIVE SqDist(_, _)
SqDist(a, b) == IF a = <<>> \/ b = <<>> THEN 0
                ELSE (Head(a) - Head(b)) * (Head(a) - Head(b)) + SqDist(Tail(a), Tail(b))

Sgn(x) == IF x > 0 THEN 1 ELSE IF x < 0 THEN -1 ELSE 0

\* rationals <<num, den>> with den > 0
RatLess(r, s) == r[1] * s[2] < s[1] * r[2]
RatLeq(r, s) == r[1] * s[2] <= s[1] * r[2]
RatEq(r, s) == r[1] * s[2] = s[1] * r[2]

\* sign-preserving square of the cosine of the angle between a and q
CosSq(a, q) == <<Sgn(Dot(a, q)) * Dot(a, q) * Dot(a, q), SqNorm(a) * SqNorm(q)>>

OneMinus(r) == <<r[2] - r[1], r[2]>>

(***************************************************************************)
(* Texts, embeddings, ids and metadata.                                    *)
(***************************************************************************)
\* str + "..." when longer than 200 characters, else the string itself
Preview(text) == IF Len(text) > PreviewLen
                 THEN SubSeq(text, 1, PreviewLen) \o <<".", ".", ".">>
                 ELSE text

\* the embedding provider: a fixed-length vector that depends on the text only
\* (here: the letter counts of the text)
EmbedQuery(text) == <<Cardinality({i \in DOMAIN text : text[i] = "a"}),
                      Cardinality({i \in DOMAIN text : text[i] = "b"})>>

\* A logical id is one string; the model keeps its three shapes apart:
\*   digits: name is the run of leading zeros, idx the number ("07" is <<"0", 7>>)
\*   uuid:   name is a well-formed UUID string
\*   chunk:  f"{filename}_chunk_{i}", name the filename and idx the chunk index
DigitsId(zeros, n) == [form |-> "digits", name |-> zeros, idx |-> n]
UuidId(u) == [form |-> "uuid", name |-> u, idx |-> 0]
ChunkId(filename, i) == [form |-> "chunk", name |-> filename, idx |-> i]

\* str.isdigit()
IsDigit(id) == id.form = "digits"
\* weaviate.util.get_valid_uuid accepts the id
IsValidUuid(id) == id.form = "uuid"

\* native point ids of Qdrant: int(doc_id), or a value of uuid.uuid4()
IntPoint(id) == [form |-> "int", name |-> "", idx |-> id.idx]
Uuid4(n) == [form |-> "uuid4", name |-> "", idx |-> n]

\* dict.get(key, default)
Get(m, k, default) == IF k \in DOMAIN m THEN m[k] ELSE default

\* zip(embeddings, documents, metadatas, ids) stops at the shortest argument
ZipLen(embeddings, documents, metadatas, ids) ==
  Min(Min(Len(embeddings), Len(documents)), Min(Len(metadatas), Len(ids)))

(***************************************************************************)
(* The backend collection.  A stored record is                             *)
(*   [pid, vector, content, props]                                         *)
(* pid the backend-native id, content the text, props the stored metadata. *)
(***************************************************************************)
\* put record r under its pid, replacing the record that holds that pid
Put(rs, r) == {x \in rs : x.pid # r.pid} \cup {r}

RECURSIVE PutAll(_, _)
PutAll(rs, points) == IF points = <<>> THEN rs
                      ELSE PutAll(Put(rs, Head(points)), Tail(points))

\* insert r unless its pid is taken (ChromaDB collection.add ignores an
\* id that already exists)
PutNew(rs, r) == IF \E x \in rs : x.pid = r.pid THEN rs ELSE rs \cup {r}

RECURSIVE PutNewAll(_, _)
PutNewAll(rs, points) == IF points = <<>> THEN rs
                         ELSE PutNewAll(PutNew(rs, Head(points)), Tail(points))

\* the payload / properties both networked adapters build from the metadata;
\* i is the 0-based position in the batch
NativeProps(document, metadata, i) ==
  [filename |-> Get(metadata, "filename", ""),
   file_path |-> Get(metadata, "file_path", ""),
   file_type |-> Get(metadata, "file_type", ""),
   chunk_id |-> Get(metadata, "chunk_id", i),
   chunk_text |-> Get(metadata, "chunk_text", Preview(document)),
   file_size |-> Get(metadata, "file_size", 0),
   character_count |-> Get(metadata, "character_count", Len(document))]

\* result of an adapter call on the backend: the new collection state and the
\* exception that left the adapter ("none" when it returned)
Outcome(ex, rs, d, next, e) ==
  [exists |-> ex, recs |-> rs, dim |-> d, nextUuid |-> next, err |-> e]

(***************************************************************************)
(* QdrantVectorDB.add_documents                                            *)
(***************************************************************************)
QdrantDraws(ids, i) == Cardinality({j \in 1..(i - 1) : ~IsDigit(ids[j])})

\* the id add_documents gives point i: int(doc_id) for a digit string,
\* otherwise a fresh uuid.uuid4()
QdrantPointId(ids, i, next) ==
  IF IsDigit(ids[i]) THEN IntPoint(ids[i])
  ELSE Uuid4(next + QdrantDraws(ids, i) + 1)

QdrantPoints(embeddings, documents, metadatas, ids, next) ==
  [i \in 1..ZipLen(embeddings, documents, metadatas, ids) |->
     [pid |-> QdrantPointId(ids, i, next),
      vector |-> embeddings[i],
      content |-> documents[i],
      props |-> NativeProps(documents[i], metadatas[i], i - 1)]]

QdrantAdd(ex, rs, d, next, embeddings, documents, metadatas, ids) ==
  LET n == ZipLen(embeddings, documents, metadatas, ids)
      points == QdrantPoints(embeddings, documents, metadatas, ids, next)
      drawn == next + QdrantDraws(ids, n + 1)
  IN  IF ~ex THEN Outcome(ex, rs, d, drawn, "UnexpectedResponse")
      ELSE IF \E i \in 1..n : Len(points[i].vector) # d
           THEN Outcome(ex, rs, d, drawn, "UnexpectedResponse")
      ELSE Outcome(ex, PutAll(rs, points), d, drawn, "none")

(***************************************************************************)
(* ChromaDBVectorDB.add_documents: collection.add through the collection   *)
(* handle taken at construction.  live: the handle's collection still      *)
(* exists.  ChromaDB fixes the dimensionality with the first vector added, *)
(* rejects a batch that repeats an id, and skips ids it already holds.     *)
(***************************************************************************)
ChromaPoints(embeddings, documents, metadatas, ids) ==
  [i \in 1..Len(ids) |->
     [pid |-> ids[i],
      vector |-> embeddings[i],
      content |-> documents[i],
      props |-> metadatas[i]]]

ChromaAdd(live, ex, rs, d, next, embeddings, documents, metadatas, ids) ==
  LET n == Len(ids)
  IN  IF ~live THEN Outcome(ex, rs, d, next, "InvalidCollectionException")
      ELSE IF n = 0 \/ Len(embeddings) # n \/ Len(documents) # n \/ Len(metadatas) # n
           THEN Outcome(ex, rs, d, next, "ValueError")
      ELSE IF \E i, j \in 1..n : i # j /\ ids[i] = ids[j]
           THEN Outcome(ex, rs, d, next, "DuplicateIDError")
      ELSE IF \E i \in 1..n :
                Len(embeddings[i]) # (IF d = 0 THEN Len(embeddings[1]) ELSE d)
           THEN Outcome(ex, rs, d, next, "InvalidDimensionException")
      ELSE Outcome(ex,
                   PutNewAll(rs, ChromaPoints(embeddings, documents, metadatas, ids)),
                   Len(embeddings[1]), next, "none")

(***************************************************************************)
(* WeaviateVectorDB.add_documents: the objects are queued one by one in    *)
(* the client's batch; batch.add_data_object raises ValueError on an id    *)
(* that is no UUID, and leaving the `with` block sends what was queued.    *)
(* The server answers per object: an object whose vector length differs    *)
(* from the class's is refused in the response, which the adapter does not *)
(* read.  auto: the server creates a missing class on import (auto-schema).*)
(***************************************************************************)
WeaviateBatch(embeddings, documents, metadatas, ids) ==
  [i \in 1..ZipLen(embeddings, documents, metadatas, ids) |->
     [pid |-> ids[i],
      vector |-> embeddings[i],
      content |-> documents[i],
      props |-> NativeProps(documents[i], metadatas[i], i - 1)]]

\* number of objects queued before add_data_object raises (all, if none does)
WeaviateQueued(batch) ==
  IF \E i \in DOMAIN batch : ~IsValidUuid(batch[i].pid)
  THEN (CHOOSE i \in DOMAIN batch :
          /\ ~IsValidUuid(batch[i].pid)
          /\ \A j \in 1..(i - 1) : IsValidUuid(batch[j].pid)) - 1
  ELSE Len(batch)

\* the server's import of the queued objects: <<records, dimensionality>>
RECURSIVE WeaviateImport(_, _, _)
WeaviateImport(rs, d, objs) ==
  IF objs = <<>> THEN <<rs, d>>
  ELSE LET o == Head(objs)
       IN  IF d # 0 /\ Len(o.vector) # d
           THEN WeaviateImport(rs, d, Tail(objs))
           ELSE WeaviateImport(Put(rs, o), Len(o.vector), Tail(objs))

WeaviateAdd(ex, rs, d, next, embeddings, documents, metadatas, ids, auto) ==
  LET batch == WeaviateBatch(embeddings, documents, metadatas, ids)
      q == WeaviateQueued(batch)
      e == IF q < Len(batch) THEN "ValueError" ELSE "none"
      sent == SubSeq(batch, 1, q)
      imported == WeaviateImport(rs, d, sent)
  IN  IF q = 0 THEN Outcome(ex, rs, d, next, e)
      ELSE IF ~ex /\ ~auto THEN Outcome(ex, rs, d, next, e)
      ELSE Outcome(TRUE, imported[1], imported[2], next, e)

(***************************************************************************)
(* Scores.  The configuration is [provider, distance_metric].              *)
(***************************************************************************)
\* the metric the backend collection really uses: ChromaDB takes the
\* configured string as hnsw:space (cosine, l2, ip), Qdrant maps it through
\* distance_mapping with COSINE as the fallback, and the Weaviate schema
\* never mentions self.distance_metric, so the class has the server's
\* default (cosine)
EffMetric(cfg) ==
  CASE cfg.provider = "chromadb" ->
         (CASE cfg.distance_metric = "l2" -> "euclidean"
            [] cfg.distance_metric = "ip" -> "dot"
            [] OTHER -> "cosine")
    [] cfg.provider = "qdrant" ->
         (IF cfg.distance_metric \in {"cosine", "euclidean", "dot"}
          THEN cfg.distance_metric ELSE "cosine")
    [] OTHER -> "cosine"

\* Qdrant's score of a stored vector: the similarity for cosine and dot,
\* the distance for Euclid
QdrantScore(metric, a, q) ==
  CASE metric = "cosine" -> CosSq(a, q)
    [] metric = "dot" -> <<Dot(a, q), 1>>
    [] OTHER -> <<SqDist(a, q), 1>>

\* the distance ChromaDB and Weaviate report: 1 - similarity for cosine and
\* inner product, the squared length for l2
NativeDistance(metric, a, q) ==
  CASE metric = "cosine" -> OneMinus(CosSq(a, q))
    [] metric = "dot" -> OneMinus(<<Dot(a, q), 1>>)
    [] OTHER -> <<SqDist(a, q), 1>>

NativeScore(cfg, a, q) ==
  IF cfg.provider = "qdrant" THEN QdrantScore(EffMetric(cfg), a, q)
  ELSE NativeDistance(EffMetric(cfg), a, q)

\* the backend's score is a similarity (higher is better)
HigherIsBetter(cfg) == cfg.provider = "qdrant" /\ EffMetric(cfg) \in {"cosine", "dot"}

\* score s is strictly better than score t in the backend's own convention
Better(cfg, s, t) == IF HigherIsBetter(cfg) THEN RatLess(t, s) ELSE RatLess(s, t)

\* the records of rs no other record of rs is better than
BestOf(cfg, rs, q) ==
  {x \in rs : \A y \in rs : ~Better(cfg, NativeScore(cfg, y.vector, q),
                                     NativeScore(cfg, x.vector, q))}

\* every list of m hits <<record, score>> taken best first from rs
RECURSIVE BestFirst(_, _, _, _)
BestFirst(cfg, rs, q, m) ==
  IF m = 0 THEN {<<>>}
  ELSE UNION {{<<[rec |-> r, score |-> NativeScore(cfg, r.vector, q)]>> \o t :
                 t \in BestFirst(cfg, rs \ {r}, q, m - 1)} :
              r \in BestOf(cfg, rs, q)}

\* a search whose limit is left out: every record comes back
SearchIgnoresLimit(cfg, rs, q, k) == BestFirst(cfg, rs, q, Cardinality(rs))

\* The backend's nearest-neighbour search: every list of min(k, count) hits
\* <<record, score>>, best first in the backend's convention, that leaves
\* out no record better than one it holds (ties in any order)
Search(cfg, rs, q, k) == BestFirst(cfg, rs, q, Min(k, Cardinality(rs)))

(***************************************************************************)
(* query: the adapters' translation of the hits into the canonical dict.   *)
(***************************************************************************)
ResultDict(documents, metadatas, distances, ids) ==
  [documents |-> <<documents>>, metadatas |-> <<metadatas>>,
   distances |-> <<distances>>, ids |-> <<ids>>]

EmptyResult == ResultDict(<<>>, <<>>, <<>>, <<>>)

\* str(result.id)
StrOfPoint(pid) == IF pid.form = "int" THEN DigitsId("", pid.idx)
                   ELSE [form |-> "uuid", name |-> "uuid4", idx |-> pid.idx]

\* the metadata both networked adapters rebuild from the payload
RebuiltMetadata(props) ==
  [filename |-> Get(props, "filename", ""),
   file_path |-> Get(props, "file_path", ""),
   file_type |-> Get(props, "file_type", ""),
   chunk_id |-> Get(props, "chunk_id", 0),
   chunk_text |-> Get(props, "chunk_text", <<>>),
   file_size |-> Get(props, "file_size", 0),
   character_count |-> Get(props, "character_count", 0)]

\* QdrantFormat with the entries in the opposite order (each hit inserted at
\* the front of the lists instead of appended)
QdrantFormatWorstFirst(hits) ==
  ResultDict([i \in DOMAIN hits |-> hits[Len(hits) + 1 - i].rec.content],
             [i \in DOMAIN hits |-> RebuiltMetadata(hits[Len(hits) + 1 - i].rec.props)],
             [i \in DOMAIN hits |-> hits[Len(hits) + 1 - i].score],
             [i \in DOMAIN hits |-> StrOfPoint(hits[Len(hits) + 1 - i].rec.pid)])

\* QdrantVectorDB.query, lines 161-197: one entry per hit, in the hits' order
QdrantFormat(hits) ==
  ResultDict([i \in DOMAIN hits |-> hits[i].rec.content],
             [i \in DOMAIN hits |-> RebuiltMetadata(hits[i].rec.props)],
             [i \in DOMAIN hits |-> hits[i].score],
             [i \in DOMAIN hits |-> StrOfPoint(hits[i].rec.pid)])

\* collection.query of ChromaDB, returned as it is
ChromaFormat(hits) ==
  ResultDict([i \in DOMAIN hits |-> hits[i].rec.content],
             [i \in DOMAIN hits |-> hits[i].rec.props],
             [i \in DOMAIN hits |-> hits[i].score],
             [i \in DOMAIN hits |-> hits[i].rec.pid])

\* WeaviateVectorDB.query, lines 188-228: the ids are fresh uuid.uuid4() values
WeaviateFormat(hits, next) ==
  ResultDict([i \in DOMAIN hits |-> hits[i].rec.content],
             [i \in DOMAIN hits |-> RebuiltMetadata(hits[i].rec.props)],
             [i \in DOMAIN hits |-> hits[i].score],
             [i \in DOMAIN hits |-> StrOfPoint(Uuid4(next + i))])

\* what a query leaves: the exception ("none"), the result dict, the uuid counter
QueryOutcome(e, res, next) == [err |-> e, result |-> res, nextUuid |-> next]

\* all outcomes of adapter.query(query_embeddings = [q], n_results = k)
AdapterQuery(cfg, live, ex, rs, next, q, k) ==
  CASE cfg.provider = "chromadb" ->
         IF ~live THEN {QueryOutcome("InvalidCollectionException", EmptyResult, next)}
         ELSE {QueryOutcome("none", ChromaFormat(h), next) : h \in Search(cfg, rs, q, k)}
    [] cfg.provider = "qdrant" ->
         IF ~ex THEN {QueryOutcome("UnexpectedResponse", EmptyResult, next)}
         ELSE {QueryOutcome("none", QdrantFormat(h), next) : h \in Search(cfg, rs, q, k)}
    [] OTHER ->
         IF ~ex THEN {QueryOutcome("none", EmptyResult, next)}
         ELSE {QueryOutcome("none", WeaviateFormat(h, next), next + Len(h)) :
                 h \in Search(cfg, rs, q, k)}

(***************************************************************************)
(* add_documents, get_collection_info and delete_collection per provider.  *)
(***************************************************************************)
AdapterAdd(cfg, live, ex, rs, d, next, embeddings, documents, metadatas, ids, auto) ==
  CASE cfg.provider = "chromadb" ->
         ChromaAdd(live, ex, rs, d, next, embeddings, documents, metadatas, ids)
    [] cfg.provider = "qdrant" ->
         QdrantAdd(ex, rs, d, next, embeddings, documents, metadatas, ids)
    [] OTHER ->
         WeaviateAdd(ex, rs, d, next, embeddings, documents, metadatas, ids, auto)

\* the backend-native ids add_documents addresses, one per zipped entry
AdapterPids(cfg, next, embeddings, documents, metadatas, ids) ==
  IF cfg.provider = "qdrant"
  THEN [i \in 1..ZipLen(embeddings, documents, metadatas, ids) |->
          QdrantPointId(ids, i, next)]
  ELSE [i \in 1..ZipLen(embeddings, documents, metadatas, ids) |-> ids[i]]

\* collection_name / class_name of the configuration
CollectionName(cfg) == IF cfg.provider = "weaviate" THEN "Document" ELSE "documents"

\* Distance.<X>.name.lower() of the Qdrant collection
QdrantDistanceName(cfg) ==
  CASE EffMetric(cfg) = "euclidean" -> "euclid"
    [] EffMetric(cfg) = "dot" -> "dot"
    [] OTHER -> "cosine"

\* the dict of the except branch
FallbackInfo(cfg) ==
  [name |-> IF cfg.provider = "chromadb" THEN "unknown" ELSE CollectionName(cfg),
   count |-> 0,
   provider |-> cfg.provider]

\* get_collection_info; fail: the backend call raises
CollectionInfo(cfg, live, ex, rs, d, fail) ==
  CASE cfg.provider = "chromadb" ->
         IF fail \/ ~live THEN FallbackInfo(cfg)
         ELSE [name |-> CollectionName(cfg), count |-> Cardinality(rs),
               provider |-> "chromadb",
               metadata |-> [hnsw_space |-> cfg.distance_metric]]
    [] cfg.provider = "qdrant" ->
         IF fail \/ ~ex THEN FallbackInfo(cfg)
         ELSE [name |-> CollectionName(cfg), count |-> Cardinality(rs),
               provider |-> "qdrant",
               vector_size |-> d,
               distance_metric |-> QdrantDistanceName(cfg)]
    [] OTHER ->
         IF fail \/ ~ex THEN FallbackInfo(cfg)
         ELSE [name |-> CollectionName(cfg), count |-> Cardinality(rs),
               provider |-> "weaviate",
               schema |-> CollectionName(cfg)]

\* delete_collection; gone: what the backend answers when nothing is there to
\* delete ("none" when it answers normally)
AdapterDelete(cfg, ex, rs, d, next, gone) ==
  IF ex THEN Outcome(FALSE, {}, 0, next, "none")
  ELSE Outcome(FALSE, rs, d, next, gone)

\* the answers of the three backends to deleting an absent collection
GoneAnswers(cfg) ==
  CASE cfg.provider = "chromadb" -> {"ValueError"}
    [] cfg.provider = "qdrant" -> {"none"}
    [] OTHER -> {"none", "UnexpectedStatusCodeException"}

\* the adapter constructors: the collection is created when absent (Qdrant
\* with the configured vector size), and reused as it is when present
Construct(cfg, ex, rs, d, next) ==
  IF ex THEN Outcome(TRUE, rs, d, next, "none")
  ELSE Outcome(TRUE, {}, IF cfg.provider = "qdrant" THEN VectorSize ELSE 0, next, "none")

(***************************************************************************)
(* The file system the loader reads.  A file is                            *)
(*   [name, suffix, size, readable, text, json]                            *)
(* readable: its parser succeeds; json: the parsed value of a .json file,  *)
(* [top |-> "list" | "dict" | "scalar", elems: the elements in order, each *)
(* [isDict, key, fields, str]].                                            *)
(***************************************************************************)
TextFile(name, text) ==
  [name |-> name, suffix |-> ".txt", size |-> Len(text), readable |-> TRUE,
   text |-> text, json |-> [top |-> "scalar", elems |-> <<>>]]

CorruptPdf(name) ==
  [name |-> name, suffix |-> ".pdf", size |-> 4, readable |-> FALSE,
   text |-> <<>>, json |-> [top |-> "scalar", elems |-> <<>>]]

JsonFile(name, size, top, elems) ==
  [name |-> name, suffix |-> ".json", size |-> size, readable |-> TRUE,
   text |-> <<>>, json |-> [top |-> top, elems |-> elems]]

\* a JSON object with a 'content' field
ContentElem(key, text) ==
  [isDict |-> TRUE, key |-> key, fields |-> [content |-> text], str |-> <<"a", "b", "a">>]

\* a file with any suffix, read as text when the loader accepts it
SuffixFile(name, suffix, text) == [TextFile(name, text) EXCEPT !.suffix = suffix]

\* a JSON object with an empty 'content' and a 'publication_description'
DescribedElem(key, text) ==
  [isDict |-> TRUE, key |-> key,
   fields |-> [content |-> <<>>, publication_description |-> text],
   str |-> <<"b", "a", "b">>]

\* a JSON object without 'content': a 'publication_description' only
FallbackElem(key, text) ==
  [isDict |-> TRUE, key |-> key, fields |-> [publication_description |-> text],
   str |-> <<"b", "b", "a">>]

\* a JSON value that is no object
ScalarElem(key, str) == [isDict |-> FALSE, key |-> key, fields |-> <<>>, str |-> str]

Files ==
  [p \in {"docs/a.txt", "docs/b.txt", "docs/bad.pdf", "docs/d.json",
          "docs/e.json", "docs/c.TXT", "docs/n.md", "docs/z.txt"} |->
     CASE p = "docs/a.txt" -> TextFile("a.txt", <<"a", "a", "b">>)
       [] p = "docs/z.txt" -> TextFile("z.txt", <<>>)
       [] p = "docs/b.txt" -> TextFile("b.txt", <<"a", "b">>)
       [] p = "docs/bad.pdf" -> CorruptPdf("bad.pdf")
       [] p = "docs/e.json" -> JsonFile("e.json", 8, "dict",
                                        <<DescribedElem("k1", <<"b">>),
                                          FallbackElem("k2", <<"a">>),
                                          ScalarElem("k3", <<"a", "b">>)>>)
       [] p = "docs/c.TXT" -> SuffixFile("c.TXT", ".TXT", <<"b">>)
       [] p = "docs/n.md" -> SuffixFile("n.md", ".md", <<"a">>)
       [] OTHER -> JsonFile("d.json", 9, "list",
                            <<ContentElem("", <<"a">>), ContentElem("", <<"b", "b">>)>>)]

\* directories, as the set of paths iterdir() yields in some order
Directories ==
  {{"docs/a.txt", "docs/bad.pdf"},
   {"docs/b.txt", "docs/bad.pdf", "docs/d.json"},
   {"docs/a.txt", "docs/b.txt"}}

SupportedFormats == {".txt", ".pdf", ".docx", ".json"}

\* suffix.lower() left out: the suffix is compared as it is spelled
LowerLeftOut(suffix) == suffix

\* str.lower() on the suffixes that occur
Lower(suffix) == IF suffix = ".TXT" THEN ".txt" ELSE suffix

(***************************************************************************)
(* DocumentLoader                                                          *)
(***************************************************************************)
BaseMetadata(path, content) ==
  [filename |-> Files[path].name,
   file_path |-> path,
   file_size |-> Files[path].size,
   file_type |-> Lower(Files[path].suffix),
   character_count |-> Len(content)]

\* a or b of Python: an empty string is falsy
OrElse(a, b) == IF a # <<>> THEN a ELSE b

\* doc.get('content') or doc.get('publication_description') or str(doc)
JsonContent(e) ==
  IF e.isDict
  THEN OrElse(Get(e.fields, "content", <<>>),
              OrElse(Get(e.fields, "publication_description", <<>>), e.str))
  ELSE e.str

\* _load_json: one document per element, tagged with its index or key
LoadJson(path) ==
  LET j == Files[path].json
  IN  CASE j.top = "list" ->
             [i \in DOMAIN j.elems |->
                [content |-> JsonContent(j.elems[i]),
                 metadata |-> [k \in DOMAIN BaseMetadata(path, <<>>) \cup {"json_index"} |->
                                 IF k = "json_index" THEN i - 1
                                 ELSE BaseMetadata(path, JsonContent(j.elems[i]))[k]]]]
        [] j.top = "dict" ->
             [i \in DOMAIN j.elems |->
                [content |-> JsonContent(j.elems[i]),
                 metadata |-> [k \in DOMAIN BaseMetadata(path, <<>>) \cup {"json_key"} |->
                                 IF k = "json_key" THEN j.elems[i].key
                                 ELSE BaseMetadata(path, JsonContent(j.elems[i]))[k]]]]
        [] OTHER ->
             <<[content |-> j.elems[1].str,
                metadata |-> BaseMetadata(path, j.elems[1].str)]>>

\* load_document: [err, isList, docs]
LoadDocument(path) ==
  IF path \notin DOMAIN Files
  THEN [err |-> "FileNotFoundError", isList |-> FALSE, docs |-> <<>>]
  ELSE IF Lower(Files[path].suffix) \notin SupportedFormats
  THEN [err |-> "ValueError", isList |-> FALSE, docs |-> <<>>]
  ELSE IF ~Files[path].readable
  THEN [err |-> "Exception", isList |-> FALSE, docs |-> <<>>]
  ELSE IF Lower(Files[path].suffix) = ".json"
  THEN [err |-> "none", isList |-> TRUE, docs |-> LoadJson(path)]
  ELSE [err |-> "none", isList |-> FALSE,
        docs |-> <<[content |-> Files[path].text,
                    metadata |-> BaseMetadata(path, Files[path].text)]>>]

\* load_directory over the files in iteration order: the documents of the
\* files that load, the others logged and skipped
RECURSIVE LoadDirectory(_)
LoadDirectory(order) ==
  IF order = <<>> THEN <<>>
  ELSE (IF Lower(Files[Head(order)].suffix) \in SupportedFormats
           /\ LoadDocument(Head(order)).err = "none"
        THEN LoadDocument(Head(order)).docs ELSE <<>>)
       \o LoadDirectory(Tail(order))

\* text_splitter.chunk_overlap of the configuration file the pipeline object
\* was constructed from: the overlap self.text_splitter splits with
VARIABLE chunk_overlap

(***************************************************************************)
(* RecursiveCharacterTextSplitter on a text without separators: windows of *)
(* chunk_size characters.  After a window is emitted the splitter keeps at *)
(* most chunk_overlap of its characters, and fewer than chunk_size, so the *)
(* next window starts chunk_size - min(chunk_overlap, chunk_size - 1)      *)
(* after the one before.                                                   *)
(***************************************************************************)
RECURSIVE SplitFrom(_, _)
SplitFrom(text, start) ==
  IF start > Len(text) THEN <<>>
  ELSE IF start + ChunkSize - 1 >= Len(text) THEN <<SubSeq(text, start, Len(text))>>
  ELSE <<SubSeq(text, start, start + ChunkSize - 1)>>
       \o SplitFrom(text, start + ChunkSize - Min(chunk_overlap, ChunkSize - 1))

SplitText(text) == SplitFrom(text, 1)

(***************************************************************************)
(* RAGPipeline: the ingestion loops as folds over the chunks and the       *)
(* documents.  The folded state is an Outcome extended with                *)
(*   calls: how many add_documents calls returned,                         *)
(*   embeds: how many embed_query calls were made,                         *)
(*   log: the arguments of the add_documents calls issued, in order,       *)
(*   splits: how many split_text calls were made,                          *)
(*   chunks: how many chunks those calls returned,                         *)
(*   failAt: the add_documents call at which the backend stops answering   *)
(*           (0: it answers every call).                                   *)
(* An exception ends the loops and leaves through the caller.              *)
(***************************************************************************)
\* metadata.copy() updated with chunk_id and chunk_text
ChunkMetadata(metadata, i, chunk) ==
  [k \in DOMAIN metadata \cup {"chunk_id", "chunk_text"} |->
     CASE k = "chunk_id" -> i
       [] k = "chunk_text" -> Preview(chunk)
       [] OTHER -> metadata[k]]

\* f"{metadata['filename']}_chunk_{i + 1}": the chunks numbered from 1
RecordIdFromOne(metadata, i) == ChunkId(metadata["filename"], i + 1)

\* f"{metadata['filename']}_chunk_{i}"
RecordId(metadata, i) == ChunkId(metadata["filename"], i)

\* the loop over enumerate(chunks), from chunk number i (1-based) on
RECURSIVE ProcessChunks(_, _, _, _, _, _)
ProcessChunks(cfg, live, st, chunks, i, metadata) ==
  IF i > Len(chunks) \/ st.err # "none" THEN st
  ELSE LET md == ChunkMetadata(metadata, i - 1, chunks[i])
           call == [embeddings |-> <<EmbedQuery(chunks[i])>>,
                    documents |-> <<chunks[i]>>,
                    metadatas |-> <<md>>,
                    ids |-> <<RecordId(md, i - 1)>>]
           out == IF st.failAt = st.embeds + 1
                  THEN Outcome(st.exists, st.recs, st.dim, st.nextUuid,
                               "ConnectionError")
                  ELSE AdapterAdd(cfg, live, st.exists, st.recs, st.dim, st.nextUuid,
                                  call.embeddings, call.documents, call.metadatas,
                                  call.ids, FALSE)
       IN  ProcessChunks(cfg, live,
                         [st EXCEPT !.exists = out.exists, !.recs = out.recs,
                                    !.dim = out.dim, !.nextUuid = out.nextUuid,
                                    !.err = out.err,
                                    !.calls = @ + (IF out.err = "none" THEN 1 ELSE 0),
                                    !.embeds = @ + 1,
                                    !.log = Append(@, call)],
                         chunks, i + 1, metadata)

\* _process_single_document, and the body of ingest_directory's loop
ProcessSingleDocument(cfg, live, st, doc) ==
  LET chunks == SplitText(doc.content)
  IN  ProcessChunks(cfg, live,
                    [st EXCEPT !.splits = @ + 1, !.chunks = @ + Len(chunks)],
                    chunks, 1, doc.metadata)

\* ProcessDocuments with every document in a try/except of its own: the
\* first exception is kept for the caller and the loop goes on
RECURSIVE ProcessDocumentsKeepGoing(_, _, _, _)
ProcessDocumentsKeepGoing(cfg, live, st, docs) ==
  IF docs = <<>> THEN st
  ELSE LET r == ProcessSingleDocument(cfg, live, [st EXCEPT !.err = "none"],
                                      Head(docs))
       IN  ProcessDocumentsKeepGoing(cfg, live,
                                     [r EXCEPT !.err = IF st.err # "none" THEN st.err
                                                       ELSE r.err],
                                     Tail(docs))

RECURSIVE ProcessDocuments(_, _, _, _)
ProcessDocuments(cfg, live, st, docs) ==
  IF docs = <<>> \/ st.err # "none" THEN st
  ELSE ProcessDocuments(cfg, live, ProcessSingleDocument(cfg, live, st, Head(docs)),
                        Tail(docs))

\* sum(len(split_text(doc['content'])) for doc in documents)
RECURSIVE TotalChunks(_)
TotalChunks(docs) ==
  IF docs = <<>> THEN 0
  ELSE Len(SplitText(Head(docs).content)) + TotalChunks(Tail(docs))

\* the chunks of the documents as <<content, metadata>> pairs, in order
RECURSIVE ChunksOf(_)
ChunksOf(docs) ==
  IF docs = <<>> THEN <<>>
  ELSE [i \in DOMAIN SplitText(Head(docs).content) |->
          [content |-> SplitText(Head(docs).content)[i],
           metadata |-> ChunkMetadata(Head(docs).metadata, i - 1,
                                      SplitText(Head(docs).content)[i])]]
       \o ChunksOf(Tail(docs))

\* RetrievedList without the last entry of the result (the loop runs over
\* range(len(results['documents'][0]) - 1))
RetrievedListSkipsLast(results) ==
  IF \/ results.documents = <<>>
     \/ results.metadatas = <<>>
     \/ results.distances = <<>>
  THEN <<>>
  ELSE [i \in 1..(Len(results.documents[1]) - 1) |->
          [content |-> results.documents[1][i],
           metadata |-> results.metadatas[1][i],
           distance |-> results.distances[1][i]]]

\* retrieve_documents, lines 217-246: the list built from a result dict
RetrievedList(results) ==
  IF \/ results.documents = <<>>
     \/ results.metadatas = <<>>
     \/ results.distances = <<>>
  THEN <<>>
  ELSE [i \in DOMAIN results.documents[1] |->
          [content |-> results.documents[1][i],
           metadata |-> results.metadatas[1][i],
           distance |-> results.distances[1][i]]]

(***************************************************************************)
(* generate_response: the two messages handed to self.llm.invoke.          *)
(***************************************************************************)
\* "\n\n".join(doc['content'] for doc in context_docs); the separator is one
\* element of the joined text
RECURSIVE JoinContents(_)
JoinContents(docs) ==
  IF docs = <<>> THEN <<>>
  ELSE IF Len(docs) = 1 THEN docs[1].content
  ELSE docs[1].content \o <<"\n\n">> \o JoinContents(Tail(docs))

\* the fixed text of the system message around {context}
SystemInstructions == "Answer the user's question based on the provided context."

GenerateRequest(query, context_docs) ==
  [system |-> [instructions |-> SystemInstructions,
               context |-> JoinContents(context_docs)],
   human |-> query]

(***************************************************************************)
(* State.                                                                  *)
(***************************************************************************)
VARIABLES
  config,      \* the vector_db configuration: [provider, distance_metric]
  exists,      \* the backend holds a collection of the configured name
  recs,        \* the records of that collection
  dim,         \* its dimensionality (0: not fixed yet)
  handleLive,  \* ChromaDB: the collection object of the adapter is the live one
  nextUuid,    \* how many uuid.uuid4() values were drawn so far
  lastOp,      \* the last call: its name, arguments, exception and result
  constructed, \* RAGPipeline.__init__ returned: the pipeline object exists
  max_results, \* retrieval.max_results of the configuration the pipeline read
  clearing     \* a clear_database call is between its delete and its recreation

vars == <<config, exists, recs, dim, handleLive, nextUuid, lastOp,
          constructed, max_results, clearing, chunk_overlap>>

\* the state of the pipeline object around the adapter
pipeVars == <<constructed, max_results, clearing, chunk_overlap>>

\* configurations the adapters construct with
Configs ==
  {[provider |-> "chromadb", distance_metric |-> m] : m \in {"cosine", "l2", "ip"}}
  \cup {[provider |-> "qdrant", distance_metric |-> m] : m \in {"cosine", "euclidean", "dot"}}
  \cup {[provider |-> "weaviate", distance_metric |-> m] : m \in {"cosine", "euclidean"}}

\* the adapter can reach its collection
Live == IF config.provider = "chromadb" THEN handleLive ELSE exists

Count == Cardinality(recs)

Init ==
  /\ config \in Configs
  /\ exists = TRUE
  /\ recs = {}
  /\ dim = (IF config.provider = "qdrant" THEN VectorSize ELSE 0)
  /\ handleLive = TRUE
  /\ nextUuid = 0
  /\ lastOp = [op |-> "init", err |-> "none"]
  /\ constructed = TRUE
  /\ max_results = DefaultMaxResults
  /\ clearing = FALSE
  /\ chunk_overlap = ChunkOverlap

(***************************************************************************)
(* Inputs of the direct adapter calls.                                     *)
(***************************************************************************)
MetaA == [filename |-> "a.txt", chunk_id |-> 0]
MetaB == [filename |-> "b.txt", chunk_id |-> 1, json_index |-> 0]

ItemA == [vector |-> <<1, 0>>, document |-> <<"a">>, metadata |-> MetaA]
ItemAA == [vector |-> <<2, 0>>, document |-> <<"a", "a">>, metadata |-> MetaB]
ItemAB == [vector |-> <<1, 1>>, document |-> <<"a", "b">>, metadata |-> MetaA]
\* a vector of the wrong length
ItemShort == [vector |-> <<1>>, document |-> <<"a">>, metadata |-> MetaA]

Items == {ItemA, ItemAA, ItemAB, ItemShort}

Ids == {DigitsId("", 7), UuidId("u1"), ChunkId("a.txt", 0)}

Entry(item, id) == [item |-> item, id |-> id]

\* one-entry batches, and two-entry batches that mix a short vector with a
\* good one, repeat an id, or carry two good entries
Batches ==
  {<<Entry(it, id)>> : it \in Items, id \in Ids}
  \cup {<<Entry(p[1], x[1]), Entry(p[2], x[2])>> :
          p \in {<<ItemA, ItemShort>>, <<ItemShort, ItemA>>, <<ItemA, ItemAA>>},
          x \in {<<UuidId("u1"), UuidId("u2")>>,
                 <<ChunkId("a.txt", 0), DigitsId("", 7)>>,
                 <<UuidId("u1"), UuidId("u1")>>}}

\* calls whose four arguments differ in length: one id for two entries, one
\* embedding for two entries, one metadata dict for two entries
RaggedCalls ==
  {[embeddings |-> <<ItemA.vector, ItemAA.vector>>,
    documents |-> <<ItemA.document, ItemAA.document>>,
    metadatas |-> <<MetaA, MetaB>>,
    ids |-> <<UuidId("u1")>>],
   [embeddings |-> <<ItemA.vector>>,
    documents |-> <<ItemA.document, ItemAA.document>>,
    metadatas |-> <<MetaA, MetaB>>,
    ids |-> <<UuidId("u1"), UuidId("u2")>>],
   [embeddings |-> <<ItemA.vector, ItemAA.vector>>,
    documents |-> <<ItemA.document, ItemAA.document>>,
    metadatas |-> <<MetaA>>,
    ids |-> <<DigitsId("", 7), UuidId("u2")>>]}

QueryVectors == {<<1, 0>>, <<2, 0>>, <<1, 1>>}

(***************************************************************************)
(* The adapter operations.                                                 *)
(***************************************************************************)
\* auto-schema only matters to Weaviate while the class is absent
AutoChoices == IF config.provider = "weaviate" /\ ~exists THEN BOOLEAN ELSE {FALSE}

AddDocuments(embeddings, documents, metadatas, ids, auto) ==
  LET out == AdapterAdd(config, Live, exists, recs, dim, nextUuid,
                        embeddings, documents, metadatas, ids, auto)
  IN  /\ auto \in AutoChoices
      /\ out.nextUuid <= MaxUuid
      /\ exists' = out.exists
      /\ recs' = out.recs
      /\ dim' = out.dim
      /\ nextUuid' = out.nextUuid
      /\ lastOp' = [op |-> "add_documents", err |-> out.err,
                    embeddings |-> embeddings, documents |-> documents,
                    metadatas |-> metadatas, ids |-> ids,
                    pids |-> AdapterPids(config, nextUuid, embeddings, documents,
                                         metadatas, ids)]
      /\ UNCHANGED <<config, handleLive>>
      /\ UNCHANGED pipeVars

Query(q, k) ==
  \E out \in AdapterQuery(config, Live, exists, recs, nextUuid, q, k) :
    /\ out.nextUuid <= MaxUuid
    /\ nextUuid' = out.nextUuid
    /\ lastOp' = [op |-> "query", err |-> out.err, q |-> q, n_results |-> k,
                  result |-> out.result]
    /\ UNCHANGED <<config, exists, recs, dim, handleLive>>
    /\ UNCHANGED pipeVars

GetCollectionInfo(fail) ==
  /\ lastOp' = [op |-> "get_collection_info", err |-> "none", failed |-> fail,
                info |-> CollectionInfo(config, Live, exists, recs, dim, fail)]
  /\ UNCHANGED <<config, exists, recs, dim, handleLive, nextUuid>>
  /\ UNCHANGED pipeVars

DeleteCollection(gone) ==
  LET out == AdapterDelete(config, exists, recs, dim, nextUuid, gone)
  IN  /\ gone \in GoneAnswers(config)
      /\ exists' = out.exists
      /\ recs' = out.recs
      /\ dim' = out.dim
      /\ handleLive' = (handleLive /\ out.err # "none")
      /\ lastOp' = [op |-> "delete_collection", err |-> out.err]
      /\ UNCHANGED <<config, nextUuid>>
      /\ UNCHANGED pipeVars

NextAdapter ==
  \/ \E b \in Batches, auto \in BOOLEAN :
       AddDocuments([i \in DOMAIN b |-> b[i].item.vector],
                    [i \in DOMAIN b |-> b[i].item.document],
                    [i \in DOMAIN b |-> b[i].item.metadata],
                    [i \in DOMAIN b |-> b[i].id], auto)
  \/ \E c \in RaggedCalls, auto \in BOOLEAN :
       AddDocuments(c.embeddings, c.documents, c.metadatas, c.ids, auto)
  \/ \E q \in QueryVectors, k \in 1..MaxTopK : Query(q, k)
  \/ \E fail \in BOOLEAN : GetCollectionInfo(fail)
  \/ \E gone \in {"none", "ValueError", "UnexpectedStatusCodeException"} :
       DeleteCollection(gone)

SpecAdapter == Init /\ [][NextAdapter]_vars

(***************************************************************************)
(* create_vector_db, the factory of the adapters.                          *)
(***************************************************************************)
\* the value of config['provider']; Absent: the dictionary has no such key
Absent == "<absent>"

ProviderTags == {"chromadb", "ChromaDB", "weaviate", "Weaviate", "qdrant", "QDRANT",
                 Absent, "pinecone", ""}

\* str.lower() left out: the tag is compared as written
LowerTagLeftOut(tag) == tag

\* str.lower() on the tags that occur
LowerTag(tag) ==
  CASE tag = "ChromaDB" -> "chromadb"
    [] tag = "Weaviate" -> "weaviate"
    [] tag = "QDRANT" -> "qdrant"
    [] OTHER -> tag

\* get_supported_providers
SupportedProviders == {"chromadb", "weaviate", "qdrant"}

\* config.get('provider', 'chromadb').lower()
ProviderOf(tag) == LowerTag(IF tag = Absent THEN "chromadb" ELSE tag)

\* the class the branch of a provider constructs
AdapterClass(provider) ==
  CASE provider = "chromadb" -> "ChromaDBVectorDB"
    [] provider = "weaviate" -> "WeaviateVectorDB"
    [] provider = "qdrant" -> "QdrantVectorDB"

\* create_vector_db(config) with config['provider'] = tag.  The else branch
\* raises before any client is made.  The other branches run the adapter's
\* constructor (one client, then the collection is created when absent);
\* the backend of the state is the one of the deployment, so a tag that
\* names another backend is no step here.
CreateVectorDb(tag) ==
  LET provider == ProviderOf(tag)
      new == Construct(config, exists, recs, dim, nextUuid)
  IN  IF provider \notin SupportedProviders
      THEN /\ lastOp' = [op |-> "create_vector_db", err |-> "ValueError",
                         tag |-> tag, adapter |-> "none", clients |-> 0,
                         existed |-> exists, before |-> recs, dimBefore |-> dim]
           /\ UNCHANGED <<config, exists, recs, dim, handleLive, nextUuid>>
           /\ UNCHANGED pipeVars
      ELSE /\ provider = config.provider
           /\ exists' = new.exists
           /\ recs' = new.recs
           /\ dim' = new.dim
           /\ handleLive' = TRUE
           /\ lastOp' = [op |-> "create_vector_db", err |-> new.err,
                         tag |-> tag, adapter |-> AdapterClass(provider),
                         clients |-> 1,
                         existed |-> exists, before |-> recs, dimBefore |-> dim]
           /\ UNCHANGED <<config, nextUuid>>
           /\ UNCHANGED pipeVars

\* scripts that make adapters through the factory, fill them one entry at a
\* time and drop the collection
NextFactory ==
  \/ \E tag \in ProviderTags : CreateVectorDb(tag)
  \/ \E it \in Items, id \in Ids, auto \in BOOLEAN :
       AddDocuments(<<it.vector>>, <<it.document>>, <<it.metadata>>, <<id>>, auto)
  \/ \E gone \in {"none", "ValueError", "UnexpectedStatusCodeException"} :
       DeleteCollection(gone)

SpecFactory == Init /\ [][NextFactory]_vars

(***************************************************************************)
(* The pipeline operations.                                                *)
(***************************************************************************)
Start == [exists |-> exists, recs |-> recs, dim |-> dim, nextUuid |-> nextUuid,
          err |-> "none", calls |-> 0, embeds |-> 0, log |-> <<>>,
          splits |-> 0, chunks |-> 0, failAt |-> 0]

Paths == DOMAIN Files \cup {"docs/missing.txt"}

Questions == {<<"a">>, <<"a", "b">>}

\* retrieval.max_results values a configuration file carries
MaxResultsChoices == {1, DefaultMaxResults}

\* text_splitter.chunk_overlap values a configuration file carries, next to
\* the chunk_size ChunkSize
OverlapChoices == {ChunkOverlap, ChunkSize, ChunkSize + 1}

\* RecursiveCharacterTextSplitter(chunk_size, chunk_overlap, separators): the
\* constructor call of _setup_text_splitter, which hands the two numbers of
\* the configuration on as they are; the library refuses an overlap larger
\* than the chunk size and takes every other one
SetupTextSplitter(size, overlap) ==
  IF overlap > size THEN "ValueError" ELSE "none"

\* RAGPipeline.__init__ in a new process over the same backend; key: the
\* environment holds GROQ_API_KEY, n: retrieval.max_results of the file,
\* overlap: its text_splitter.chunk_overlap.
\* _setup_text_splitter runs first: its exception leaves __init__ before
\* the backend is touched.  _setup_vector_db runs before _setup_llm, whose
\* ValueError leaves __init__, so that no pipeline object exists.
RAGPipelineInit(key, n, overlap) ==
  LET new == Construct(config, exists, recs, dim, nextUuid)
  IN  IF SetupTextSplitter(ChunkSize, overlap) # "none"
      THEN /\ constructed' = FALSE
           /\ lastOp' = [op |-> "RAGPipeline.__init__",
                         err |-> SetupTextSplitter(ChunkSize, overlap),
                         key |-> key, chunk_size |-> ChunkSize,
                         chunk_overlap |-> overlap, llm_requests |-> <<>>]
           /\ UNCHANGED <<config, exists, recs, dim, handleLive, nextUuid,
                          max_results, clearing, chunk_overlap>>
      ELSE /\ exists' = new.exists
           /\ recs' = new.recs
           /\ dim' = new.dim
           /\ handleLive' = TRUE
           /\ constructed' = key
           /\ max_results' = n
           /\ chunk_overlap' = overlap
           /\ lastOp' = [op |-> "RAGPipeline.__init__",
                         err |-> IF key THEN "none" ELSE "ValueError",
                         key |-> key, chunk_size |-> ChunkSize,
                         chunk_overlap |-> overlap, llm_requests |-> <<>>]
           /\ UNCHANGED <<config, nextUuid, clearing>>

\* ingest_document; failAt: the add_documents call of this ingestion at
\* which the backend stops answering (0: it answers every call).
\* total_chunks adds up the len(chunks) of the lists _process_single_document
\* returned.
IngestDocument(path, failAt) ==
  LET ld == LoadDocument(path)
      st == IF ld.err # "none" THEN [Start EXCEPT !.err = ld.err]
            ELSE ProcessDocuments(config, handleLive,
                                  [Start EXCEPT !.failAt = failAt], ld.docs)
  IN  /\ constructed
      /\ st.nextUuid <= MaxUuid
      /\ exists' = st.exists
      /\ recs' = st.recs
      /\ dim' = st.dim
      /\ nextUuid' = st.nextUuid
      /\ lastOp' = [op |-> "ingest_document", err |-> st.err, path |-> path,
                    again |-> (/\ lastOp.op = "ingest_document"
                               /\ lastOp.err = "none"
                               /\ lastOp.path = path),
                    countBefore |-> Count, calls |-> st.calls, embeds |-> st.embeds,
                    loaded |-> ld.docs, log |-> st.log, splits |-> st.splits,
                    failAt |-> failAt,
                    total_chunks |-> IF st.err = "none" THEN st.chunks ELSE 0]
      /\ UNCHANGED <<config, handleLive>>
      /\ UNCHANGED pipeVars

\* ingest_directory: the loop, then line 201, which splits every document
\* once more and adds up the lengths
IngestDirectory(order) ==
  LET docs == LoadDirectory(order)
      st == ProcessDocuments(config, handleLive, Start, docs)
  IN  /\ constructed
      /\ st.nextUuid <= MaxUuid
      /\ exists' = st.exists
      /\ recs' = st.recs
      /\ dim' = st.dim
      /\ nextUuid' = st.nextUuid
      /\ lastOp' = [op |-> "ingest_directory", err |-> st.err, order |-> order,
                    countBefore |-> Count, calls |-> st.calls, embeds |-> st.embeds,
                    loaded |-> docs, log |-> st.log,
                    splits |-> st.splits + (IF st.err = "none" THEN Len(docs) ELSE 0),
                    total_chunks |-> IF st.err = "none" THEN TotalChunks(docs) ELSE 0]
      /\ UNCHANGED <<config, handleLive>>
      /\ UNCHANGED pipeVars

RetrieveDocuments(question) ==
  \E out \in AdapterQuery(config, Live, exists, recs, nextUuid,
                          EmbedQuery(question), max_results) :
    /\ constructed
    /\ out.nextUuid <= MaxUuid
    /\ nextUuid' = out.nextUuid
    /\ lastOp' = [op |-> "retrieve_documents", err |-> out.err,
                  q |-> EmbedQuery(question), n_results |-> max_results,
                  result |-> out.result,
                  documents |-> IF out.err = "none" THEN RetrievedList(out.result)
                                ELSE <<>>]
    /\ UNCHANGED <<config, exists, recs, dim, handleLive>>
    /\ UNCHANGED pipeVars

\* RAGPipeline.query: retrieve_documents, then generate_response with what
\* was retrieved; llm_requests counts the self.llm.invoke calls
PipelineQuery(question) ==
  \E out \in AdapterQuery(config, Live, exists, recs, nextUuid,
                          EmbedQuery(question), max_results) :
    LET retrieved_docs == IF out.err = "none" THEN RetrievedList(out.result) ELSE <<>>
    IN  /\ constructed
        /\ out.nextUuid <= MaxUuid
        /\ nextUuid' = out.nextUuid
        /\ lastOp' = [op |-> "RAGPipeline.query", err |-> out.err,
                      question |-> question, n_results |-> max_results,
                      result |-> out.result,
                      retrieved_documents |-> retrieved_docs,
                      num_sources |-> Len(retrieved_docs),
                      llm_requests |-> IF out.err = "none"
                                       THEN <<GenerateRequest(question, retrieved_docs)>>
                                       ELSE <<>>]
        /\ UNCHANGED <<config, exists, recs, dim, handleLive>>
        /\ UNCHANGED pipeVars

\* clear_database; fail: the backend call inside get_collection_info raises
ClearDatabase(fail) ==
  LET info == CollectionInfo(config, Live, exists, recs, dim, fail)
      del == AdapterDelete(config, exists, recs, dim, nextUuid,
                           CHOOSE g \in GoneAnswers(config) : TRUE)
      new == Construct(config, del.exists, del.recs, del.dim, del.nextUuid)
  IN  /\ constructed
      /\ IF info.count = 0
         THEN /\ lastOp' = [op |-> "clear_database", err |-> "none", failed |-> fail,
                            initial_count |-> 0]
              /\ UNCHANGED <<config, exists, recs, dim, handleLive, nextUuid>>
         ELSE /\ exists' = new.exists
              /\ recs' = new.recs
              /\ dim' = new.dim
              /\ handleLive' = TRUE
              /\ lastOp' = [op |-> "clear_database", err |-> "none", failed |-> fail,
                            initial_count |-> info.count]
              /\ UNCHANGED <<config, nextUuid>>
      /\ UNCHANGED pipeVars

Next ==
  \/ \E path \in Paths : IngestDocument(path, 0)
  \/ \E d \in Directories : \E order \in Perms(d) : IngestDirectory(order)
  \/ \E question \in Questions : RetrieveDocuments(question)
  \/ \E fail \in BOOLEAN : ClearDatabase(fail)

Spec == Init /\ [][Next]_vars

\* clear_database run by one thread while others use the same pipeline
\* object: lines 315-323, up to the return of delete_collection
ClearDelete(fail) ==
  LET info == CollectionInfo(config, Live, exists, recs, dim, fail)
      del == AdapterDelete(config, exists, recs, dim, nextUuid,
                           CHOOSE g \in GoneAnswers(config) : TRUE)
  IN  /\ constructed
      /\ ~clearing
      /\ IF info.count = 0
         THEN /\ lastOp' = [op |-> "clear_database", err |-> "none", failed |-> fail,
                            initial_count |-> 0]
              /\ UNCHANGED <<exists, recs, dim, handleLive, clearing>>
         ELSE /\ exists' = del.exists
              /\ recs' = del.recs
              /\ dim' = del.dim
              /\ handleLive' = FALSE
              /\ clearing' = TRUE
              /\ lastOp' = [op |-> "delete_collection", err |-> del.err]
      /\ UNCHANGED <<config, nextUuid, constructed, max_results, chunk_overlap>>

\* lines 326-329: create_vector_db and the assignment to self.vector_db
ClearRecreate ==
  LET new == Construct(config, exists, recs, dim, nextUuid)
  IN  /\ clearing
      /\ exists' = new.exists
      /\ recs' = new.recs
      /\ dim' = new.dim
      /\ handleLive' = TRUE
      /\ clearing' = FALSE
      /\ lastOp' = [op |-> "clear_database", err |-> "none", failed |-> FALSE]
      /\ UNCHANGED <<config, nextUuid, constructed, max_results, chunk_overlap>>

\* threads that share one pipeline object: the one-entry add_documents calls
\* of _process_single_document, and clear_database in its two steps
NextConcurrent ==
  \/ \E it \in Items, id \in Ids, auto \in BOOLEAN :
       AddDocuments(<<it.vector>>, <<it.document>>, <<it.metadata>>, <<id>>, auto)
  \/ \E fail \in BOOLEAN : ClearDelete(fail)
  \/ ClearRecreate

SpecConcurrent == Init /\ [][NextConcurrent]_vars

\* the question answering path: processes that construct the pipeline,
\* ingest single files and ask questions
NextQuery ==
  \/ \E key \in BOOLEAN, n \in MaxResultsChoices :
       RAGPipelineInit(key, n, ChunkOverlap)
  \/ \E path \in Paths : IngestDocument(path, 0)
  \/ \E question \in Questions : PipelineQuery(question)

SpecQuery == Init /\ [][NextQuery]_vars

\* retrieval over a collection filled through the adapter, one entry at a
\* time (the migration and test scripts), by pipelines of different
\* retrieval.max_results
NextRetrieve ==
  \/ \E n \in MaxResultsChoices : RAGPipelineInit(TRUE, n, ChunkOverlap)
  \/ \E it \in Items, id \in Ids, auto \in BOOLEAN :
       AddDocuments(<<it.vector>>, <<it.document>>, <<it.metadata>>, <<id>>, auto)
  \/ \E question \in Questions : RetrieveDocuments(question)

SpecRetrieve == Init /\ [][NextRetrieve]_vars

\* ingestion under the configurations and the backend faults a deployment
\* meets: processes that construct the pipeline from configuration files
\* with different overlaps, and ingestions during which the backend stops
\* answering
IngestPaths == {"docs/a.txt", "docs/d.json", "docs/z.txt", "docs/missing.txt"}

NextIngest ==
  \/ \E overlap \in OverlapChoices :
       RAGPipelineInit(TRUE, DefaultMaxResults, overlap)
  \/ \E path \in IngestPaths, failAt \in 0..MaxFailAt :
       IngestDocument(path, failAt)

SpecIngest == Init /\ [][NextIngest]_vars

(***************************************************************************)
(* Properties.                                                             *)
(***************************************************************************)

\* C1: ingesting the same file a second time, right after a first ingestion
\* of it that returned, leaves the record count where the first call left it.
C1_IdempotentIngestion ==
  (lastOp.op = "ingest_document" /\ lastOp.err = "none" /\ lastOp.again)
    => Count = lastOp.countBefore

\* C2: the backend-native ids add_documents addresses depend on the logical
\* ids alone: a call given the ids of the call before it addresses the same
\* backend records.
C2_DeterministicIdentity ==
  [][(/\ lastOp.op = "add_documents" /\ lastOp.err = "none"
      /\ lastOp'.op = "add_documents" /\ lastOp'.err = "none"
      /\ lastOp'.ids = lastOp.ids)
       => lastOp'.pids = lastOp.pids]_vars

\* the properties the adapter stores for an entry: ChromaDB the metadata as
\* given, the networked adapters their fixed payload
StoredProps(cfg, document, metadata) ==
  IF cfg.provider = "chromadb" THEN metadata ELSE NativeProps(document, metadata, 0)

\* C3: add_documents with an id the collection already holds (the call before
\* stored it) replaces the record in place: the count is unchanged, and the
\* record under that id carries the vector, text and metadata of this call.
C3_UpsertInPlace ==
  [][(/\ lastOp.op = "add_documents" /\ lastOp.err = "none" /\ Len(lastOp.ids) = 1
      /\ lastOp'.op = "add_documents" /\ lastOp'.err = "none"
      /\ lastOp'.ids = lastOp.ids
      /\ \E r \in recs : r.pid = lastOp.pids[1])
       => /\ Cardinality(recs') = Cardinality(recs)
          /\ \E r \in recs' :
               /\ r.pid = lastOp.pids[1]
               /\ r.vector = lastOp'.embeddings[1]
               /\ r.content = lastOp'.documents[1]
               /\ r.props = StoredProps(config, lastOp'.documents[1],
                                        lastOp'.metadatas[1])]_vars

\* the score a stored copy of the query vector has
SelfScore == NativeScore(config, lastOp.q, lastOp.q)

\* a query returned while the collection holds a record whose vector is the
\* query vector
SelfMatchCase ==
  /\ lastOp.op = "query"
  /\ lastOp.err = "none"
  /\ \E r \in recs : r.vector = lastOp.q

\* the first entry of the result is as relevant as the stored copy of the
\* query vector
SelfMatchFirst ==
  /\ Len(lastOp.result.distances[1]) >= 1
  /\ RatEq(lastOp.result.distances[1][1], SelfScore)

\* C4 as stated: for every adapter and every metric, a query with the vector
\* of a stored record returns that record first or tied for first.
C4_SelfMatchAnyMetric == SelfMatchCase => SelfMatchFirst

\* C4 amended: the self-match is first or tied for first under the cosine and
\* the Euclidean metric, and under the dot product when no stored vector is
\* longer than the query vector.
C4_SelfMatch ==
  (/\ SelfMatchCase
   /\ \/ EffMetric(config) \in {"cosine", "euclidean"}
      \/ \A r \in recs : SqNorm(r.vector) <= SqNorm(lastOp.q))
    => SelfMatchFirst

\* a self-match query over at least two records of different relevance, under
\* a similarity backend and under a distance backend
C4_Witness ==
  /\ SelfMatchCase
  /\ EffMetric(config) \in {"cosine", "euclidean"}
  /\ \E r \in recs : ~RatEq(NativeScore(config, r.vector, lastOp.q), SelfScore)
  /\ Len(lastOp.result.distances[1]) = 2
  /\ SelfMatchFirst

\* a list of exposed relevance values read as distances: never decreasing
DistancesAscend(ds) == \A i, j \in DOMAIN ds : i < j => RatLeq(ds[i], ds[j])

\* C5: the records of a query result, and the list retrieve_documents builds
\* from it, run from the most to the least relevant, and the value exposed as
\* 'distances' / 'distance' follows the one convention that name declares for
\* every backend: a distance, the smaller the more relevant.
C5_MostRelevantFirst ==
  (lastOp.op = "retrieve_documents" /\ lastOp.err = "none")
    => /\ DistancesAscend(lastOp.result.distances[1])
       /\ DistancesAscend([i \in DOMAIN lastOp.documents |-> lastOp.documents[i].distance])
       /\ Len(lastOp.documents) = Len(lastOp.result.documents[1])

\* C6: the count get_collection_info returns is the number of records the
\* backend collection holds at that moment.
C6_LiveCount ==
  lastOp.op = "get_collection_info" => lastOp.info.count = Count

\* a one-entry add_documents call the backend has no reason to refuse: the
\* vector has the configured length and the id is one the backend accepts
WellFormedAdd(op) ==
  /\ op.op = "add_documents"
  /\ Len(op.ids) = 1
  /\ Len(op.embeddings[1]) = VectorSize
  /\ config.provider = "weaviate" => IsValidUuid(op.ids[1])

\* C7: once delete_collection has removed the collection, the same adapter
\* instance works on an implicitly recreated empty collection: add_documents
\* returns and its record is stored and counted, query returns an empty
\* result, get_collection_info reports count 0.
C7_RecreateOnUse ==
  [][~exists =>
       /\ WellFormedAdd(lastOp') =>
            (lastOp'.err = "none" /\ exists' /\ Cardinality(recs') = 1)
       /\ lastOp'.op = "query" =>
            (lastOp'.err = "none" /\ lastOp'.result = EmptyResult)
       /\ lastOp'.op = "get_collection_info" => lastOp'.info.count = 0]_vars

\* C8: when clear_database has returned, the collection exists, is empty and
\* is the one the pipeline's vector_db handle reaches.
C8_FullClear ==
  (lastOp.op = "clear_database" /\ lastOp.err = "none")
    => (exists /\ Live /\ Count = 0)

\* C9: add_documents with a vector whose length is not the configured
\* dimensionality fails with DimensionMismatchError and leaves the records of
\* the collection as they were.
C9_DimensionInvariant ==
  [][(/\ lastOp'.op = "add_documents"
      /\ \E i \in DOMAIN lastOp'.embeddings : Len(lastOp'.embeddings[i]) # VectorSize)
       => (lastOp'.err = "DimensionMismatchError" /\ recs' = recs)]_vars

\* every chunk of the documents is held by a record with its text and filename
AllStored(chunks) ==
  \A i \in DOMAIN chunks :
    \E r \in recs : /\ r.content = chunks[i].content
                    /\ r.props.filename = chunks[i].metadata.filename
                    /\ r.props.chunk_id = chunks[i].metadata.chunk_id

\* C10: ingest_directory over a directory with a file that cannot be loaded,
\* into an empty collection, returns without raising and stores exactly the
\* chunks of the files that loaded.
C10_DirectoryPartialFailure ==
  (/\ lastOp.op = "ingest_directory"
   /\ lastOp.countBefore = 0
   /\ \E i \in DOMAIN lastOp.order : ~Files[lastOp.order[i]].readable)
    => /\ lastOp.err = "none"
       /\ Count = Len(ChunksOf(LoadDirectory(lastOp.order)))
       /\ AllStored(ChunksOf(LoadDirectory(lastOp.order)))

\* the chunks <<document number, chunk number>> of the loaded documents whose
\* own processing, from the state st, meets no failure
SoundChunks(docs, st) ==
  UNION {{<<i, j>> : j \in DOMAIN SplitText(docs[i].content)} :
         i \in {k \in DOMAIN docs :
                  ProcessSingleDocument(config, handleLive, st, docs[k]).err = "none"}}

\* C11: ingest_directory returns normally whatever happens to a single
\* document, and every loaded document whose own processing meets no failure
\* is chunked, embedded and handed to the vector store, chunk by chunk.
C11_PerDocumentIsolation ==
  [][lastOp'.op = "ingest_directory" =>
       /\ lastOp'.err = "none"
       /\ lastOp'.calls >= Cardinality(SoundChunks(LoadDirectory(lastOp'.order),
                                                   Start))]_vars

\* the four arguments of an add_documents call have one length
EqualLengths(op) ==
  /\ Len(op.embeddings) = Len(op.ids)
  /\ Len(op.documents) = Len(op.ids)
  /\ Len(op.metadatas) = Len(op.ids)

\* C12: add_documents with arguments of different lengths fails with
\* InvalidArgumentError and stores nothing.
C12_ArgumentLengthCheck ==
  [][(lastOp'.op = "add_documents" /\ ~EqualLengths(lastOp'))
       => (lastOp'.err = "InvalidArgumentError" /\ recs' = recs)]_vars

\* the request differs from a request that carries retrieved context in more
\* than its context string
SignalsNoContext(req) ==
  \A text \in {<<"a">>, <<"a", "b">>} :
    [GenerateRequest(req.human, <<[content |-> text]>>)
       EXCEPT !.system.context = req.system.context] # req

\* C13: a RAGPipeline.query that retrieves no record still sends exactly one
\* request to the generation provider, and that request tells the provider
\* that no context is available.
C13_EmptyRetrieval ==
  (lastOp.op = "RAGPipeline.query" /\ lastOp.err = "none" /\ lastOp.num_sources = 0)
    => /\ Len(lastOp.llm_requests) = 1
       /\ SignalsNoContext(lastOp.llm_requests[1])

\* C14: the num_sources a RAGPipeline.query reports is the length of its
\* retrieved_documents and the number of records the vector store returned
\* for the query; it never exceeds retrieval.max_results and is 0 when the
\* collection is empty.
C14_SourceCount ==
  (lastOp.op = "RAGPipeline.query" /\ lastOp.err = "none")
    => /\ lastOp.num_sources = Len(lastOp.retrieved_documents)
       /\ lastOp.num_sources = Len(lastOp.result.documents[1])
       /\ lastOp.num_sources <= max_results
       /\ Count = 0 => lastOp.num_sources = 0

\* a query with max_results = 1 over a collection of several records reports
\* one source
C14_Witness ==
  /\ lastOp.op = "RAGPipeline.query"
  /\ lastOp.err = "none"
  /\ max_results = 1
  /\ Count >= 2
  /\ lastOp.num_sources = 1

\* C15: no add_documents call runs between the delete_collection of a
\* clear_database and the end of its recreation.
C15_SerialisedClear ==
  [][clearing => lastOp'.op # "add_documents"]_vars

\* C16: without GROQ_API_KEY the pipeline is still constructed, so that the
\* ingestion path works; only the retrieval / generation path fails.
C16_CredentialScope ==
  (lastOp.op = "RAGPipeline.__init__" /\ ~lastOp.key)
    => (lastOp.err = "none" /\ constructed)

\* the error kinds that may cross the adapter boundary
ErrorTaxonomy ==
  {"ConnectionError", "DimensionMismatchError", "NotFoundError",
   "InvalidArgumentError", "BackendError"}

\* C17: a failing adapter operation reaches its caller as an error of the
\* taxonomy, and a backend failure inside get_collection_info is not turned
\* into a normal result.
C17_UniformErrors ==
  /\ lastOp.op \in {"add_documents", "query", "get_collection_info", "delete_collection"}
       => lastOp.err \in ErrorTaxonomy \cup {"none"}
  /\ (lastOp.op = "get_collection_info" /\ lastOp.failed) => lastOp.err # "none"

\* the suffixes of the supported set in either spelling
SupportedAnyCase == SupportedFormats \cup {".TXT", ".PDF", ".DOCX", ".JSON"}

\* C18: ingest_document on a missing path fails with the loader's not-found
\* error (FileNotFoundError), on an existing path whose suffix is outside the
\* supported set with its unsupported-format error (ValueError); either way
\* no document is returned, nothing is embedded and nothing is written.  A
\* readable file with a supported suffix, in either case, is loaded.
C18_LoaderErrorKinds ==
  [][lastOp'.op = "ingest_document" =>
       LET path == lastOp'.path
           quiet == /\ lastOp'.loaded = <<>>
                    /\ lastOp'.embeds = 0
                    /\ lastOp'.calls = 0
                    /\ recs' = recs
                    /\ nextUuid' = nextUuid
       IN  /\ path \notin DOMAIN Files
                => (lastOp'.err = "FileNotFoundError" /\ quiet)
           /\ (path \in DOMAIN Files /\ Files[path].suffix \notin SupportedAnyCase)
                => (lastOp'.err = "ValueError" /\ quiet)
           /\ (/\ path \in DOMAIN Files
               /\ Files[path].suffix \in SupportedAnyCase
               /\ Files[path].readable)
                => lastOp'.loaded # <<>>]_vars

\* an ingestion of the unsupported docs/n.md into a collection that holds
\* records, ended by the unsupported-format error
C18_Witness ==
  /\ lastOp.op = "ingest_document"
  /\ lastOp.path = "docs/n.md"
  /\ lastOp.err = "ValueError"
  /\ lastOp.loaded = <<>>
  /\ lastOp.countBefore >= 1
  /\ Count = lastOp.countBefore

\* the content the element is to yield: its 'content' field when it has
\* one, else its 'publication_description' when it has one, else its string
\* form
PresentContent(e) ==
  IF e.isDict /\ "content" \in DOMAIN e.fields THEN e.fields["content"]
  ELSE IF e.isDict /\ "publication_description" \in DOMAIN e.fields
       THEN e.fields["publication_description"]
  ELSE e.str

\* C19: loading a JSON file whose top level is an array or an object yields
\* one document per element, in element order, tagged with its index or its
\* key, whose content is the element's 'content' field whenever the element
\* has one.
C19_JsonLoading ==
  (/\ lastOp.op = "ingest_document"
   /\ lastOp.path \in DOMAIN Files
   /\ Lower(Files[lastOp.path].suffix) = ".json"
   /\ Files[lastOp.path].json.top \in {"list", "dict"})
    => LET j == Files[lastOp.path].json
       IN  /\ Len(lastOp.loaded) = Len(j.elems)
           /\ \A i \in DOMAIN j.elems :
                /\ lastOp.loaded[i].content = PresentContent(j.elems[i])
                /\ j.top = "list" => lastOp.loaded[i].metadata.json_index = i - 1
                /\ j.top = "dict" => lastOp.loaded[i].metadata.json_key = j.elems[i].key

\* C20: every result of get_collection_info carries the fields name, count,
\* provider, vector_size and distance_metric.
C20_InfoShape ==
  lastOp.op = "get_collection_info"
    => {"name", "count", "provider", "vector_size", "distance_metric"}
         \subseteq DOMAIN lastOp.info

\* C21: constructing the pipeline from a configuration whose chunk_overlap
\* is at least its chunk_size (the equal case included) fails: __init__
\* raises and no pipeline object exists on which ingest or query could run.
C21_ChunkingConfigCheck ==
  (lastOp.op = "RAGPipeline.__init__" /\ lastOp.chunk_overlap >= lastOp.chunk_size)
    => (lastOp.err # "none" /\ ~constructed)

\* the tags that name a provider of get_supported_providers in any case,
\* with the class each one stands for; no tag at all stands for ChromaDB
NamedClass ==
  [t \in {"chromadb", "ChromaDB", Absent, "weaviate", "Weaviate", "qdrant", "QDRANT"} |->
     CASE t \in {"chromadb", "ChromaDB", Absent} -> "ChromaDBVectorDB"
       [] t \in {"weaviate", "Weaviate"} -> "WeaviateVectorDB"
       [] OTHER -> "QdrantVectorDB"]

\* C22: create_vector_db returns the adapter its 'provider' tag names, for
\* each supported name in any case and ChromaDB when the tag is absent; for
\* every other tag it raises, having made no backend client and leaving the
\* collection as it was.
C22_BackendSelection ==
  [][lastOp'.op = "create_vector_db"
       => IF lastOp'.tag \in DOMAIN NamedClass
          THEN lastOp'.err = "none" /\ lastOp'.adapter = NamedClass[lastOp'.tag]
          ELSE /\ lastOp'.err = "ValueError"
               /\ lastOp'.adapter = "none"
               /\ lastOp'.clients = 0
               /\ UNCHANGED <<exists, recs, dim, handleLive, nextUuid>>]_vars

\* an upper-case tag has made the Qdrant adapter over a filled collection
C22_Witness ==
  /\ lastOp.op = "create_vector_db"
  /\ lastOp.tag = "QDRANT"
  /\ lastOp.adapter = "QdrantVectorDB"
  /\ Count > 0

\* the metric a configuration names, in the words of Qdrant's mapping
ConfiguredMetric(cfg) ==
  CASE cfg.distance_metric = "l2" -> "euclidean"
    [] cfg.distance_metric = "ip" -> "dot"
    [] OTHER -> cfg.distance_metric

\* C29: constructing an adapter over an existing collection leaves its
\* records, count and dimensionality as they were; constructing it while the
\* collection is absent creates an empty collection of the configured
\* dimensionality and the configured distance metric.
C29_LazyCreationAndReuse ==
  (lastOp.op = "create_vector_db" /\ lastOp.err = "none")
    => IF lastOp.existed
       THEN exists /\ recs = lastOp.before /\ dim = lastOp.dimBefore
       ELSE /\ exists
            /\ recs = {}
            /\ dim = VectorSize
            /\ EffMetric(config) = ConfiguredMetric(config)

\* C23: the chunk total an ingestion reports when it returns is the number
\* of chunks it embedded and handed to the store, and it comes from the
\* split results the embedding ran over: split_text was called once per
\* loaded document, never a second time for the total.
C23_ReportedChunkCount ==
  (lastOp.op \in {"ingest_document", "ingest_directory"} /\ lastOp.err = "none")
    => /\ lastOp.total_chunks = lastOp.embeds
       /\ lastOp.total_chunks = lastOp.calls
       /\ lastOp.splits = Len(lastOp.loaded)

\* C24: the chunks of one ingested file never share a record id, whatever
\* chunk index or JSON element they come from, so that a file of N chunks
\* ingested into an empty collection leaves exactly N records.
C24_NoIdCollision ==
  (lastOp.op = "ingest_document" /\ lastOp.err = "none")
    => /\ \A i, j \in DOMAIN lastOp.log :
            i # j => lastOp.log[i].ids # lastOp.log[j].ids
       /\ lastOp.countBefore = 0 => Count = lastOp.total_chunks

\* the add_documents calls the chunks of the documents ask for, in order
ExpectedCalls(docs) ==
  [n \in DOMAIN ChunksOf(docs) |->
     LET c == ChunksOf(docs)[n]
     IN  [embeddings |-> <<EmbedQuery(c.content)>>,
          documents |-> <<c.content>>,
          metadatas |-> <<c.metadata>>,
          ids |-> <<ChunkId(c.metadata["filename"], c.metadata["chunk_id"])>>]]

\* C25: an ingestion that returns has issued one add_documents call per
\* chunk, in chunk order, the i-th of a document carrying the id
\* filename_chunk_i, the parent metadata extended with chunk_id = i, the
\* text of chunk i and its embedding; a document without chunks causes no
\* call, and the loaded metadata is left without chunk keys.
C25_PerChunkRecords ==
  (lastOp.op \in {"ingest_document", "ingest_directory"} /\ lastOp.err = "none")
    => /\ lastOp.log = ExpectedCalls(lastOp.loaded)
       /\ lastOp.calls = Len(lastOp.log)
       /\ \A d \in DOMAIN lastOp.loaded :
            "chunk_id" \notin DOMAIN lastOp.loaded[d].metadata

\* a text file of two chunks was ingested by two calls
C25_Witness ==
  /\ lastOp.op = "ingest_document"
  /\ lastOp.err = "none"
  /\ lastOp.path = "docs/a.txt"
  /\ Len(lastOp.log) = 2

\* the record of an add_documents call is in the collection
CallStored(call) ==
  \E r \in recs : /\ r.content = call.documents[1]
                  /\ r.vector = call.embeddings[1]
                  /\ r.props.filename = call.metadatas[1].filename
                  /\ r.props.chunk_id = call.metadatas[1].chunk_id

AddedThenFound ==
  /\ lastOp.op = "add_documents" /\ lastOp.err = "none"
  /\ Len(lastOp.ids) = 1 /\ Len(lastOp.embeddings) = 1
  /\ Len(lastOp.documents) = 1 /\ Len(lastOp.metadatas) = 1
  /\ Count = 1
  /\ lastOp'.op = "query" /\ lastOp'.err = "none"
  /\ Len(lastOp'.result.documents[1]) = 1

\* C27: the metadata a query returns for a record is the metadata that was
\* passed to add_documents for it, key by key: nothing dropped, nothing
\* replaced by a default.
C27_MetadataRoundTrip ==
  [][AddedThenFound => lastOp'.result.metadatas[1][1] = lastOp.metadatas[1]]_vars

\* C28: the id a query returns for a record is the logical id that was
\* passed to add_documents for it, and a query repeated on the unchanged
\* collection returns the same ids in the same order.
C28_ResultIds ==
  [][/\ AddedThenFound => lastOp'.result.ids[1][1] = lastOp.ids[1]
     /\ (/\ lastOp.op = "query" /\ lastOp.err = "none"
         /\ lastOp'.op = "query" /\ lastOp'.err = "none"
         /\ lastOp'.q = lastOp.q /\ lastOp'.n_results = lastOp.n_results
         /\ Count = 1)
          => lastOp'.result.ids = lastOp.result.ids]_vars

\* position i of the three inner lists describes one stored record: its
\* text, the filename and chunk number of its properties, and its score
\* against the query vector
SameRecordAt(result, q, i) ==
  \E r \in recs :
    /\ result.documents[1][i] = r.content
    /\ result.metadatas[1][i].filename = r.props.filename
    /\ result.metadatas[1][i].chunk_id = r.props.chunk_id
    /\ result.distances[1][i] = NativeScore(config, r.vector, q)

\* C30: a query answer holds 'documents', 'metadatas' and 'distances', each
\* a list of one inner list, the three inner lists of one length L that is
\* at most n_results and at most the record count, position i of each
\* describing the same record; retrieve_documents returns L entries, entry
\* i built from position i.
C30_CanonicalResultShape ==
  (lastOp.op = "retrieve_documents" /\ lastOp.err = "none")
    => LET result == lastOp.result
           L == Len(result.documents[1])
       IN  /\ Len(result.documents) = 1
           /\ Len(result.metadatas) = 1
           /\ Len(result.distances) = 1
           /\ Len(result.metadatas[1]) = L
           /\ Len(result.distances[1]) = L
           /\ L <= lastOp.n_results
           /\ L <= Count
           /\ \A i \in 1..L : SameRecordAt(result, lastOp.q, i)
           /\ Len(lastOp.documents) = L
           /\ \A i \in 1..L :
                /\ lastOp.documents[i].content = result.documents[1][i]
                /\ lastOp.documents[i].metadata = result.metadatas[1][i]
                /\ lastOp.documents[i].distance = result.distances[1][i]

\* a retrieval limited to one result over a collection of several records
C30_Witness ==
  /\ lastOp.op = "retrieve_documents"
  /\ lastOp.err = "none"
  /\ lastOp.n_results = 1
  /\ Count >= 2
  /\ Len(lastOp.documents) = 1

====
